---- MODULE Spec2Model ----
(***************************************************************************)
(* A model of the publish pipeline of "A Likely Story":                    *)
(*   scripts/publish.py     markdown manuscript -> chapter page, index,    *)
(*                          listing page, RSS feed                         *)
(*   generate_chapter.py    the earlier generator: chapter page, index,    *)
(*                          listing page                                   *)
(* Text is a sequence of one-character strings, a date is <<y, m, d>>.     *)
(***************************************************************************)
EXTENDS Integers, Sequences, FiniteSets, TLC

VARIABLES
    pages,      \* chapters/NNN.html: filename -> page content
    indexFile,  \* chapters.json
    listing,    \* chapters.html
    feed,       \* rss.xml
    run,        \* per process: the invocation in progress and its locals
    last,       \* the invocation that ended most recently (history)
    runs,       \* number of invocations started (history)
    faults,     \* number of writes that failed (history)
    call,       \* a single call of a pure function: its inputs and result
    io          \* the loads and saves of chapters.json by the publish
                \* invocations that overlap the running ones (history)

vars == <<pages, indexFile, listing, feed, run, last, runs, faults, call, io>>
files == <<pages, indexFile, listing, feed>>

(***************************************************************************)
(* Text                                                                    *)
(***************************************************************************)
\* Optional[int]: None is the empty sequence, a number n is <<n>>
None == <<>>
Some(x) == <<x>>
Digits == <<"0", "1", "2", "3", "4", "5", "6", "7", "8", "9">>

\* str(n) for n >= 0
RECURSIVE str(_)
str(n) == IF n < 10 THEN <<Digits[n + 1]>> ELSE str(n \div 10) \o <<Digits[(n % 10) + 1]>>

DigitVal(c) == (CHOOSE i \in 1..10 : Digits[i] = c) - 1

\* int(s) for a string of decimal digits
RECURSIVE int(_)
int(s) == IF Len(s) = 0 THEN 0 ELSE 10 * int(SubSeq(s, 1, Len(s) - 1)) + DigitVal(s[Len(s)])

\* f"{n:03d}"
RECURSIVE zfill(_, _)
zfill(s, w) == IF Len(s) >= w THEN s ELSE zfill(<<"0">> \o s, w)
pad3(n) == zfill(str(n), 3)

Whitespace == {" ", "\n"}

\* s.lstrip() / s.lstrip(chars)
RECURSIVE lstripSet(_, _)
lstripSet(s, cs) ==
    IF Len(s) > 0 /\ s[1] \in cs THEN lstripSet(Tail(s), cs) ELSE s

RECURSIVE rstripSet(_, _)
rstripSet(s, cs) ==
    IF Len(s) > 0 /\ s[Len(s)] \in cs THEN rstripSet(SubSeq(s, 1, Len(s) - 1), cs) ELSE s

strip(s) == rstripSet(lstripSet(s, Whitespace), Whitespace)

\* s.splitlines(): the lines of s, without the line ends; no empty last line
RECURSIVE splitlinesFrom(_, _)
splitlinesFrom(s, cur) ==
    IF Len(s) = 0 THEN (IF Len(cur) = 0 THEN <<>> ELSE <<cur>>)
    ELSE IF s[1] = "\n" THEN <<cur>> \o splitlinesFrom(Tail(s), <<>>)
    ELSE splitlinesFrom(Tail(s), Append(cur, s[1]))
splitlines(s) == splitlinesFrom(s, <<>>)

startswith(s, c) == Len(s) > 0 /\ s[1] = c

(***************************************************************************)
(* Calendar: datetime.date arithmetic                                      *)
(***************************************************************************)
START_DATE == <<2026, 1, 1>>

IsLeap(y) == (y % 4 = 0) /\ ((y % 100 # 0) \/ (y % 400 = 0))
DaysInMonth(y, m) ==
    IF m = 2 THEN (IF IsLeap(y) THEN 29 ELSE 28)
    ELSE IF m \in {4, 6, 9, 11} THEN 30 ELSE 31
DaysBeforeYear(y) ==
    (y - 1) * 365 + ((y - 1) \div 4) - ((y - 1) \div 100) + ((y - 1) \div 400)
RECURSIVE DaysBeforeMonthOf(_, _)
DaysBeforeMonthOf(y, m) ==
    IF m = 1 THEN 0 ELSE DaysBeforeMonthOf(y, m - 1) + DaysInMonth(y, m - 1)

\* the years the model's dates fall in, and their month offsets
Years == 2024..2028
MonthOffsets == [y \in Years |-> [m \in 1..12 |-> DaysBeforeMonthOf(y, m)]]
DaysBeforeMonth(y, m) == MonthOffsets[y][m]

\* date.toordinal()
toordinal(d) == DaysBeforeYear(d[1]) + DaysBeforeMonth(d[1], d[2]) + d[3]

\* date.fromordinal(n)
fromordinal(n) ==
    LET y == CHOOSE yy \in Years :
                 DaysBeforeYear(yy) < n /\ n <= DaysBeforeYear(yy + 1)
        r == n - DaysBeforeYear(y)
        m == CHOOSE mm \in 1..12 :
                 DaysBeforeMonth(y, mm) < r /\ r <= DaysBeforeMonth(y, mm) + DaysInMonth(y, mm)
    IN  <<y, m, r - DaysBeforeMonth(y, m)>>

\* date + timedelta(days=k)
DatePlusDays(d, k) == fromordinal(toordinal(d) + k)
\* (d1 - d0).days
DaysBetween(d1, d0) == toordinal(d1) - toordinal(d0)

MonthNames == <<"January", "February", "March", "April", "May", "June", "July",
                "August", "September", "October", "November", "December">>
MonthAbbrs == <<"Jan", "Feb", "Mar", "Apr", "May", "Jun", "Jul", "Aug", "Sep", "Oct",
                "Nov", "Dec">>
WeekdayNames == <<"Mon", "Tue", "Wed", "Thu", "Fri", "Sat", "Sun">>
\* d.strftime("%B %d, %Y")
FormatDate(d) == <<MonthNames[d[2]], " ">> \o zfill(str(d[3]), 2) \o <<",", " ">> \o str(d[1])
\* d.strftime("%B %Y")
MonthKey(d) == <<MonthNames[d[2]], " ">> \o str(d[1])
\* d.strftime("%a, %d %b %Y 06:30:00 GMT")
FormatRfc2822(d) ==
    <<WeekdayNames[((toordinal(d) + 6) % 7) + 1], ",", " ">> \o zfill(str(d[3]), 2)
        \o <<" ", MonthAbbrs[d[2]], " ">> \o str(d[1]) \o <<" ", "06:30:00 GMT">>
\* d.isoformat()
isoformat(d) ==
    str(d[1]) \o <<"-">> \o zfill(str(d[2]), 2) \o <<"-">> \o zfill(str(d[3]), 2)

\* scripts/publish.py
day_number_for_date_off_by_one(d) ==
    IF d[1] # 2026 THEN None
    ELSE LET n == DaysBetween(d, START_DATE)
         IN  IF 1 <= n /\ n <= 365 THEN Some(n) ELSE None

day_number_for_date(d) ==
    IF d[1] # 2026 THEN None
    ELSE LET n == DaysBetween(d, START_DATE) + 1
         IN  IF 1 <= n /\ n <= 365 THEN Some(n) ELSE None

date_for_day_number(n) == DatePlusDays(START_DATE, n - 1)

\* generate_chapter.py
get_day_number_for_date(target_date) ==
    IF target_date[1] # 2026 THEN None
    ELSE LET day_num == DaysBetween(target_date, START_DATE) + 1
         IN  IF 1 <= day_num /\ day_num <= 365 THEN Some(day_num) ELSE None

get_date_for_day(day_num) == DatePlusDays(START_DATE, day_num - 1)

(***************************************************************************)
(* Manuscript metadata (scripts/publish.py)                                *)
(* A YAML value is tagged: [t |-> "str", v |-> text], [t |-> "int", ...],   *)
(* or NoValue for a key the frontmatter does not have (fm.get -> None).     *)
(***************************************************************************)
NoValue == [t |-> "none"]
Str(s) == [t |-> "str", v |-> s]
IsStr(x) == x.t = "str"
\* fm.get(key)
FmGet(fm, key) == IF key \in DOMAIN fm THEN fm[key] ELSE NoValue

ChapterWord == <<"C", "h", "a", "p", "t", "e", "r", " ">>

\* the first line of lines that starts with "#", 0 when there is none
RECURSIVE FirstHeading(_, _)
FirstHeading(lines, i) ==
    IF i > Len(lines) THEN 0
    ELSE IF startswith(lines[i], "#") THEN i
    ELSE FirstHeading(lines, i + 1)

heading_text(line) == strip(lstripSet(line, {"#"}))

derive_title(fm, body_md, day_num) ==
    LET t == FmGet(fm, "title")
        lines == splitlines(body_md)
        h == FirstHeading(lines, 1)
    IN  IF IsStr(t) /\ strip(t.v) # <<>> THEN strip(t.v)
        ELSE IF h # 0 THEN heading_text(lines[h])
        ELSE ChapterWord \o str(day_num)

EXCERPT_MIN == 40
EXCERPT_MAX == 200

RECURSIVE RemoveChars(_, _)
RemoveChars(s, cs) ==
    IF Len(s) = 0 THEN <<>>
    ELSE IF s[1] \in cs THEN RemoveChars(Tail(s), cs)
    ELSE <<s[1]>> \o RemoveChars(Tail(s), cs)

\* the least j >= i with P(j), 0 when there is none up to hi
RECURSIVE FindFrom(_, _, _, _)
FindFrom(s, i, hi, c) ==
    IF i > hi THEN 0 ELSE IF s[i] = c THEN i ELSE FindFrom(s, i + 1, hi, c)

\* the end of the line that holds position i (the next "\n", or the end of s)
LineEnd(s, i) ==
    LET j == FindFrom(s, i, Len(s), "\n") IN IF j = 0 THEN Len(s) ELSE j - 1

\* the least k >= i with s[k] = "]" and s[k+1] = "(" on the line, 0 when none
RECURSIVE FindLinkMid(_, _, _)
FindLinkMid(s, i, hi) ==
    IF i + 1 > hi THEN 0
    ELSE IF s[i] = "]" /\ s[i + 1] = "(" THEN i
    ELSE FindLinkMid(s, i + 1, hi)

\* re.sub(r"\[(.*?)\]\((.*?)\)", r"\1", s)
RECURSIVE StripLinks(_)
StripLinks(s) ==
    IF Len(s) = 0 THEN <<>>
    ELSE IF s[1] # "[" THEN <<s[1]>> \o StripLinks(Tail(s))
    ELSE LET hi == LineEnd(s, 1)
             mid == FindLinkMid(s, 2, hi)
             close == IF mid = 0 THEN 0 ELSE FindFrom(s, mid + 2, hi, ")")
         IN  IF close = 0 THEN <<s[1]>> \o StripLinks(Tail(s))
             ELSE SubSeq(s, 2, mid - 1) \o StripLinks(SubSeq(s, close + 1, Len(s)))

\* the end of the run of whitespace that starts at i
RECURSIVE SpaceRunEnd(_, _)
SpaceRunEnd(s, i) ==
    IF i + 1 <= Len(s) /\ s[i + 1] \in Whitespace THEN SpaceRunEnd(s, i + 1) ELSE i

\* the greatest j in lo..hi with s[j] = "\n", 0 when there is none
RECURSIVE LastNewline(_, _, _)
LastNewline(s, lo, hi) ==
    IF hi < lo THEN 0 ELSE IF s[hi] = "\n" THEN hi ELSE LastNewline(s, lo, hi - 1)

\* re.split(r"\n\s*\n", s)
RECURSIVE SplitParagraphs(_, _)
SplitParagraphs(s, cur) ==
    IF Len(s) = 0 THEN <<cur>>
    ELSE LET j == IF s[1] = "\n" THEN LastNewline(s, 2, SpaceRunEnd(s, 1)) ELSE 0
         IN  IF j # 0 THEN <<cur>> \o SplitParagraphs(SubSeq(s, j + 1, Len(s)), <<>>)
             ELSE SplitParagraphs(Tail(s), Append(cur, s[1]))

\* " ".join(s.split()) for a stripped s
RECURSIVE JoinWords(_, _)
JoinWords(s, out) ==
    IF Len(s) = 0 THEN out
    ELSE IF s[1] \in Whitespace THEN JoinWords(lstripSet(s, Whitespace), Append(out, " "))
    ELSE JoinWords(Tail(s), Append(out, s[1]))

\* the first paragraph whose normalised length is >= 40, cut to 200 characters
RECURSIVE FirstLongParagraph(_, _)
FirstLongParagraph(paras, i) ==
    IF i > Len(paras) THEN <<>>
    ELSE LET t == JoinWords(strip(paras[i]), <<>>)
         IN  IF Len(t) >= EXCERPT_MIN
             THEN (IF Len(t) > EXCERPT_MAX THEN Append(SubSeq(t, 1, EXCERPT_MAX), "...")
                   ELSE t)
             ELSE FirstLongParagraph(paras, i + 1)

\* the characters of r"[#*_>`]"; the backquote is written out
MarkupChars == {"#", "*", "_", ">", "backquote"}

derive_excerpt(fm, body_md) ==
    LET e == FmGet(fm, "excerpt")
        text == RemoveChars(StripLinks(body_md), MarkupChars)
    IN  IF IsStr(e) /\ strip(e.v) # <<>> THEN strip(e.v)
        ELSE FirstLongParagraph(SplitParagraphs(text, <<>>), 1)

\* markdown.markdown(body_md, ...): the external converter; its output is
\* determined by its input
markdown_to_html(body_md) == <<"html">> \o body_md

(***************************************************************************)
(* Files.  A write (Path.write_text, open(..., 'w')) truncates the file    *)
(* and then writes: it ends with the new content, or fails before the file *)
(* is opened (the file is as it was), or fails after the truncation (the   *)
(* file holds a part of the new content).                                   *)
(***************************************************************************)
NoFile == [exists |-> FALSE, whole |-> FALSE, data |-> <<>>]
File(d) == [exists |-> TRUE, whole |-> TRUE, data |-> d]
Torn(d) == [exists |-> TRUE, whole |-> FALSE, data |-> d]

Prefixes(d) == {SubSeq(d, 1, k) : k \in 0..Len(d)}

\* what a failed write of the sequence d can leave of a file that held old
FailedWrites(old, d) == {old} \cup {Torn(x) : x \in Prefixes(d)}

(***************************************************************************)
(* The index: the "chapters" dict of chapters.json, a sequence of          *)
(* [key, info] in insertion order.                                         *)
(***************************************************************************)
RECURSIVE KeyPos(_, _, _)
KeyPos(chapters, key, i) ==
    IF i > Len(chapters) THEN 0
    ELSE IF chapters[i].key = key THEN i
    ELSE KeyPos(chapters, key, i + 1)

\* chapters[key] = info, where every assignment adds an item
DictAppend(chapters, key, info) == Append(chapters, [key |-> key, info |-> info])

\* chapters = {key: info}: the records loaded are dropped
DictReplace(chapters, key, info) == <<[key |-> key, info |-> info]>>

\* chapters[key] = info
DictSet(chapters, key, info) ==
    LET i == KeyPos(chapters, key, 1)
    IN  IF i = 0 THEN Append(chapters, [key |-> key, info |-> info])
        ELSE [chapters EXCEPT ![i] = [key |-> key, info |-> info]]

\* info.get(field, default)
InfoGet(info, field, default) == IF field \in DOMAIN info THEN info[field] ELSE default

\* key=lambda x: int(x[0]), as a mutant that compares the keys as text:
\* the rank of a key of up to three digits in lexicographic order
lex_sort_key(item) ==
    LET k == item.key
        D(i) == IF i <= Len(k) THEN DigitVal(k[i]) + 1 ELSE 0
    IN  D(1) * 121 + D(2) * 11 + D(3)

\* key=lambda x: int(x[0])
int_sort_key(item) == int(item.key)

\* sorted(items, key=...): a stable sort, ascending
RECURSIVE InsertAscending(_, _)
InsertAscending(sorted, item) ==
    IF Len(sorted) = 0 THEN <<item>>
    ELSE IF int_sort_key(sorted[Len(sorted)]) <= int_sort_key(item) THEN Append(sorted, item)
    ELSE Append(InsertAscending(SubSeq(sorted, 1, Len(sorted) - 1), item), sorted[Len(sorted)])

RECURSIVE SortAscending(_)
SortAscending(items) ==
    IF Len(items) = 0 THEN <<>>
    ELSE InsertAscending(SortAscending(SubSeq(items, 1, Len(items) - 1)), items[Len(items)])

\* sorted(items, key=..., reverse=True): stable, descending
RECURSIVE InsertDescending(_, _)
InsertDescending(sorted, item) ==
    IF Len(sorted) = 0 THEN <<item>>
    ELSE IF int_sort_key(sorted[Len(sorted)]) >= int_sort_key(item) THEN Append(sorted, item)
    ELSE Append(InsertDescending(SubSeq(sorted, 1, Len(sorted) - 1), item), sorted[Len(sorted)])

RECURSIVE SortDescending(_)
SortDescending(items) ==
    IF Len(items) = 0 THEN <<>>
    ELSE InsertDescending(SortDescending(SubSeq(items, 1, Len(items) - 1)), items[Len(items)])

(***************************************************************************)
(* The listing page (chapters.html)                                         *)
(***************************************************************************)
RECURSIVE MonthPos(_, _, _)
MonthPos(months, month_key, i) ==
    IF i > Len(months) THEN 0
    ELSE IF months[i].month = month_key THEN i
    ELSE MonthPos(months, month_key, i + 1)

\* months.setdefault(month_key, []).append(entry), over the sorted items
RECURSIVE GroupByMonth(_, _, _)
GroupByMonth(items, i, months) ==
    IF i > Len(items) THEN months
    ELSE LET day_num == int(items[i].key)
             info == items[i].info
             month_key == MonthKey(date_for_day_number(day_num))
             li == [day_num |-> day_num, title |-> info.title, date |-> info.date,
                    file |-> info.file]
             at == MonthPos(months, month_key, 1)
         IN  GroupByMonth(items, i + 1,
                 IF at = 0 THEN Append(months, [month |-> month_key, lis |-> <<li>>])
                 ELSE [months EXCEPT ![at].lis = Append(@, li)])

\* scripts/publish.py: the content rebuild_chapters_page writes
rebuild_chapters_page(chapters) ==
    [by |-> "scripts/publish.py", total |-> Len(chapters),
     sections |-> GroupByMonth(SortAscending(chapters), 1, <<>>)]

\* generate_chapter.py: the content rebuild_chapters_html writes
rebuild_chapters_html(chapters) ==
    [by |-> "generate_chapter.py", total |-> Len(chapters),
     sections |-> GroupByMonth(SortAscending(chapters), 1, <<>>)]

\* a listing page cut short
TornListing == Torn([by |-> "", total |-> 0, sections |-> <<>>])
NoListing == [exists |-> FALSE, whole |-> FALSE, data |-> [by |-> "", total |-> 0, sections |-> <<>>]]

(***************************************************************************)
(* The feed (rss.xml)                                                       *)
(***************************************************************************)
SITE_URL == <<"https://alikelystory.org">>
FEED_LIMIT == 30

escChar(c) ==
    IF c = "&" THEN "&amp;" ELSE IF c = "<" THEN "&lt;"
    ELSE IF c = ">" THEN "&gt;" ELSE IF c = "\"" THEN "&quot;" ELSE c
esc(s) == [i \in 1..Len(s) |-> escChar(s[i])]

\* sorted(...)[:30] with every record kept
First(items, n) == items

\* sorted(...)[:30]
Latest(items, n) == SubSeq(items, 1, IF Len(items) < n THEN Len(items) ELSE n)

rss_item(item) ==
    LET day_num == int(item.key)
        info == item.info
        link == SITE_URL \o <<"/chapters/">> \o info.file
    IN  [day_num |-> day_num,
         title |-> esc(InfoGet(info, "title", ChapterWord \o str(day_num))),
         link |-> esc(link),
         guid |-> esc(link),
         pubDate |-> esc(InfoGet(info, "rfc2822", <<>>)),
         description |-> esc(InfoGet(info, "excerpt", <<>>))]

\* the items rebuild_rss writes
rebuild_rss(chapters) ==
    LET picked == Latest(SortDescending(chapters), FEED_LIMIT)
    IN  [i \in 1..Len(picked) |-> rss_item(picked[i])]

(***************************************************************************)
(* Chapter pages                                                            *)
(***************************************************************************)
chapter_paths(day_num) == pad3(day_num) \o <<".html">>

\* template.format(...) of templates/chapter_template.html
render_chapter_html(ch) ==
    [template |-> "templates/chapter_template.html",
     num |-> ch.day_num,
     title |-> ch.title,
     date_formatted |-> FormatDate(ch.chapter_date),
     content_html |-> splitlines(strip(ch.html_body)),
     prev_link |-> IF ch.day_num > 1 THEN pad3(ch.day_num - 1) \o <<".html">> ELSE <<"#">>,
     next_link |-> IF ch.day_num < 365 THEN pad3(ch.day_num + 1) \o <<".html">> ELSE <<"#">>,
     prev_class |-> IF ch.day_num > 1 THEN "" ELSE "disabled",
     next_class |-> IF ch.day_num < 365 THEN "" ELSE "disabled"]

\* CHAPTER_TEMPLATE.format(...) of generate_chapter.py
generate_chapter_html(day_num, title, content) ==
    [template |-> "CHAPTER_TEMPLATE",
     num |-> day_num,
     title |-> title,
     date_formatted |-> FormatDate(get_date_for_day(day_num)),
     content_html |-> splitlines(strip(content)),
     prev_link |-> IF day_num > 1 THEN pad3(day_num - 1) \o <<".html">> ELSE <<"#">>,
     next_link |-> IF day_num < 365 THEN pad3(day_num + 1) \o <<".html">> ELSE <<"#">>,
     prev_class |-> IF day_num > 1 THEN "" ELSE "disabled",
     next_class |-> IF day_num < 365 THEN "" ELSE "disabled"]

TornPage == Torn([template |-> ""])

\* the index record publish() stores
publish_record(title, excerpt, ch_date, filename) ==
    [title |-> title, date |-> FormatDate(ch_date), file |-> filename,
     excerpt |-> excerpt, rfc2822 |-> FormatRfc2822(ch_date)]

\* the index record generate_chapter() stores
generate_record(title, date_formatted, filename) ==
    [title |-> title, date |-> date_formatted, file |-> filename]

(***************************************************************************)
(* Inputs                                                                   *)
(***************************************************************************)
NumDays == 3
MaxRuns == 2
MaxStart == 1
MaxFaults == 1
DayPool == <<9, 10, 32, 365, 1, 100, 59, 60>>
Days == {DayPool[i] : i \in 1..(IF NumDays < Len(DayPool) THEN NumDays ELSE Len(DayPool))}

TodayWord == <<"T", "o", "d", "a", "y">>
Args == {str(n) : n \in Days \cup {0, 366}} \cup {TodayWord, <<"a", "b", "c">>}
Todays == {<<2025, 12, 31>>, <<2026, 1, 9>>}

\* str.lower()
lowerChar(c) == IF c = "T" THEN "t" ELSE c
lower(s) == [i \in 1..Len(s) |-> lowerChar(s[i])]

\* whether int(s) succeeds: a sign, then digits
IsIntText(s) ==
    LET body == IF Len(s) > 0 /\ s[1] \in {"-", "+"} THEN Tail(s) ELSE s
    IN  Len(body) > 0 /\ \A i \in 1..Len(body) : \E k \in 1..10 : Digits[k] = body[i]
\* int(s)
intText(s) == IF Len(s) > 0 /\ s[1] = "-" THEN 0 - int(Tail(s))
              ELSE IF Len(s) > 0 /\ s[1] = "+" THEN int(Tail(s)) ELSE int(s)

\* manuscripts: the text of a file, already split into its frontmatter
\* mapping and its body; malformed when yaml.safe_load raises on it
Missing == [exists |-> FALSE]
MsTitled ==
    [exists |-> TRUE, malformed |-> FALSE,
     fm |-> [title |-> Str(<<" ", "a", "&">>), excerpt |-> Str(<<"e", "<">>)],
     body |-> <<"#", "b", "\n", "t">>]
MsHeading ==
    [exists |-> TRUE, malformed |-> FALSE, fm |-> <<>>,
     body |-> <<"#", " ", "b", "\n", "t">>]
MsMalformed == [exists |-> TRUE, malformed |-> TRUE, fm |-> <<>>, body |-> <<>>]

\* the manuscript directory: what the file of each naming convention holds
ManuscriptDirs ==
    {[iso |-> a, pad |-> b, bare |-> c] :
        a \in {Missing, MsTitled}, b \in {Missing, MsHeading}, c \in {Missing, MsMalformed}}

\* the candidate paths of find_manuscript_for_day, in order
Candidates(day_num) ==
    <<isoformat(date_for_day_number(day_num)) \o <<".md">>,
      pad3(day_num) \o <<".md">>,
      str(day_num) \o <<".md">>>>
Kinds == <<"iso", "pad", "bare">>

\* the file at candidates[i] (two conventions can name one file)
ReadManuscript(dir, candidates, i) ==
    dir[Kinds[CHOOSE k \in 1..i :
                  candidates[k] = candidates[i] /\ \A j \in 1..(k - 1) : candidates[j] # candidates[i]]]

RECURSIVE FirstExisting(_, _, _)
FirstExisting(dir, candidates, i) ==
    IF i > Len(candidates) THEN 0
    ELSE IF ReadManuscript(dir, candidates, i).exists THEN i
    ELSE FirstExisting(dir, candidates, i + 1)

\* find_manuscript_for_day: the first candidate that exists, else FileNotFoundError
find_manuscript_for_day(day_num, dir) ==
    LET candidates == Candidates(day_num)
        i == FirstExisting(dir, candidates, 1)
    IN  IF i = 0 THEN [found |-> FALSE]
        ELSE [found |-> TRUE, path |-> candidates[i],
              raw |-> ReadManuscript(dir, candidates, i)]

\* how many of the candidate files of a day exist
ExistingCandidates(day_num, dir) ==
    LET candidates == Candidates(day_num)
    IN  Cardinality({candidates[i] : i \in
            {j \in 1..3 : ReadManuscript(dir, candidates, j).exists}})

\* parse_frontmatter: the frontmatter mapping and the body, or a YAML error
parse_frontmatter(raw) == [ok |-> ~raw.malformed, fm |-> raw.fm, body |-> raw.body]

\* the range check of main(), off by one at the upper end
valid_day_366(dn) == 1 <= dn /\ dn <= 366

\* main(): 1 <= dn <= 365
valid_day(dn) == 1 <= dn /\ dn <= 365

\* publish(): "if not dry_run" left out
after_render_always_write(dry_run) == "page"

\* publish(): "if not dry_run", with the write of the chapter page left out
after_render_skip_page(dry_run) == IF dry_run THEN "return" ELSE "load"

\* publish(): "if not dry_run"
after_render(dry_run) == IF dry_run THEN "return" ELSE "page"

\* an exception swallowed: the run goes on with the next step
on_error_continue(step) ==
    IF step = "page" THEN "load" ELSE IF step = "load" THEN "save"
    ELSE IF step = "index" THEN "listing" ELSE IF step = "listing" THEN "rss" ELSE "abort"

\* publish() catches nothing: an exception of any step ends the run
on_error(step) == "abort"

(***************************************************************************)
(* State                                                                    *)
(***************************************************************************)
Procs == {1, 2}
Idle == [pc |-> "idle"]
Snapshot == <<pages, indexFile, listing, feed>>
NoCall == [fn |-> "none"]

\* The repository at the start: the days of a start sequence were published
\* in that order by scripts/publish.py, each from a manuscript with a title.
StartSeqs ==
    {q \in UNION {[1..k -> Days] : k \in 0..MaxStart} :
        \A i, j \in 1..Len(q) : i # j => q[i] # q[j]}

StartChapter(n) ==
    LET parsed == parse_frontmatter(MsTitled)
    IN  [day_num |-> n, chapter_date |-> date_for_day_number(n),
         title |-> derive_title(parsed.fm, parsed.body, n),
         excerpt |-> derive_excerpt(parsed.fm, parsed.body),
         markdown_source |-> MsTitled,
         html_body |-> markdown_to_html(parsed.body)]

RECURSIVE StartIndex(_, _)
StartIndex(q, k) ==
    IF k = 0 THEN <<>>
    ELSE LET ch == StartChapter(q[k])
         IN  DictSet(StartIndex(q, k - 1), str(q[k]),
                     publish_record(ch.title, ch.excerpt, ch.chapter_date,
                                    chapter_paths(q[k])))

StartPages(q) ==
    [f \in {chapter_paths(q[i]) : i \in 1..Len(q)} |->
        File(render_chapter_html(StartChapter(
            q[CHOOSE i \in 1..Len(q) : chapter_paths(q[i]) = f])))]

Init ==
    /\ \E q \in StartSeqs :
        /\ pages = StartPages(q)
        /\ indexFile = IF Len(q) = 0 THEN NoFile ELSE File(StartIndex(q, Len(q)))
        /\ listing = IF Len(q) = 0 THEN NoListing
                     ELSE File(rebuild_chapters_page(StartIndex(q, Len(q))))
        /\ feed = IF Len(q) = 0 THEN NoFile ELSE File(rebuild_rss(StartIndex(q, Len(q))))
    /\ run = [p \in Procs |-> Idle]
    /\ last = [cmd |-> "none", status |-> 0, clean |-> TRUE]
    /\ runs = 0
    /\ faults = 0
    /\ call = NoCall
    /\ io = <<>>

\* the record of an invocation that ended while main() was validating
Rejected(cmd, arg, today, nfiles, why) ==
    [cmd |-> cmd, status |-> 1, failedAt |-> why, arg |-> arg, today |-> today,
     nfiles |-> nfiles, steps |-> <<>>, pre |-> Snapshot, clean |-> last.clean]

\* the record of a publish.py invocation r that ended with the given status
Ended(r, status, failedAt, steps) ==
    [cmd |-> r.cmd, status |-> status, failedAt |-> failedAt, day_num |-> r.day_num,
     dry_run |-> r.dry_run, raw |-> r.raw, ret |-> r.chapter, steps |-> steps,
     prev |-> r.prev, acceptable |-> r.acceptable,
     prior |-> IF failedAt = "index" THEN indexFile ELSE NoFile,
     updated |-> IF failedAt = "index" THEN r.index ELSE <<>>,
     pre |-> IF status # 0 \/ r.dry_run \/ (r.prev.ok /\ ~r.prev.dry_run)
             THEN r.pre ELSE <<>>,
     clean |-> last.clean /\ status = 0]

\* whether the invocation that ended last was a successful publish of this day
\* from this manuscript, and what it returned
Previous(day_num, raw) ==
    IF last.cmd = "publish" /\ last.status = 0 /\ last.day_num = day_num /\ last.raw = raw
    THEN [ok |-> TRUE, dry_run |-> last.dry_run, ret |-> last.ret]
    ELSE [ok |-> FALSE, dry_run |-> FALSE]

\* a write fails (disk full, no permission, the process is killed)
WriteFails == faults < MaxFaults /\ faults' = faults + 1

\* a step of process p raised: the run ends there
Fail(p, step) ==
    LET r == run[p]
        steps == IF step = "load" THEN r.steps ELSE Append(r.steps, step)
    IN  IF on_error(step) = "abort"
        THEN /\ run' = [run EXCEPT ![p] = Idle]
             /\ last' = Ended(r, 1, step, steps)
        ELSE /\ run' = [run EXCEPT ![p].pc = on_error(step), ![p].steps = steps,
                                   ![p].failedAt = step]
             /\ UNCHANGED last

(***************************************************************************)
(* scripts/publish.py                                                       *)
(***************************************************************************)
\* The inputs the command accepts: a day number of 1..365, or "today" on a
\* day of 2026, with at least one candidate manuscript on disk (history).
ValidDayArgs == {str(n) : n \in 1..365}
Acceptable(arg, today, nfiles) ==
    /\ IF lower(arg) = <<"t", "o", "d", "a", "y">> THEN today[1] = 2026
       ELSE arg \in ValidDayArgs
    /\ nfiles > 0

\* publish(day_num, dry_run) up to the rendered page
PublishDay(p, arg, today, n, dir) ==
    LET nfiles == ExistingCandidates(n, dir)
        m == find_manuscript_for_day(n, dir)
        parsed == parse_frontmatter(m.raw)
        ch_date == date_for_day_number(n)
        chapter == [day_num |-> n, chapter_date |-> ch_date,
                    title |-> derive_title(parsed.fm, parsed.body, n),
                    excerpt |-> derive_excerpt(parsed.fm, parsed.body),
                    markdown_source |-> m.raw,
                    html_body |-> markdown_to_html(parsed.body)]
    IN  IF ~m.found
        THEN /\ last' = Rejected("publish", arg, today, nfiles, "manuscript")
             /\ UNCHANGED run
        ELSE IF ~parsed.ok
        THEN /\ last' = Rejected("publish", arg, today, nfiles, "frontmatter")
             /\ UNCHANGED run
        ELSE \E dry_run \in BOOLEAN :
             LET r == [pc |-> after_render(dry_run), cmd |-> "publish", arg |-> arg,
                       today |-> today, nfiles |-> nfiles, day_num |-> n,
                       dry_run |-> dry_run, raw |-> m.raw, chapter |-> chapter,
                       filename |-> chapter_paths(n),
                       html |-> render_chapter_html(chapter),
                       index |-> <<>>, steps |-> <<>>, failedAt |-> "",
                       pre |-> Snapshot, prev |-> Previous(n, m.raw),
                       acceptable |-> Acceptable(arg, today, nfiles)]
             IN  IF r.pc = "return"
                 THEN /\ last' = Ended(r, 0, "", <<>>)
                      /\ UNCHANGED run
                 ELSE /\ run' = [run EXCEPT ![p] = r]
                      /\ UNCHANGED last

\* main() and publish() up to the rendered page: nothing is written yet
PublishMain(p) ==
    /\ run[p].pc = "idle"
    /\ runs < MaxRuns
    /\ runs' = runs + 1
    /\ UNCHANGED <<pages, indexFile, listing, feed, faults, call>>
    /\ io' = IF \A q \in Procs : run[q].pc = "idle" THEN <<>> ELSE io
    /\ \E arg \in Args :
       \E today \in (IF lower(arg) = <<"t", "o", "d", "a", "y">> THEN Todays ELSE {<<>>}) :
         LET isToday == lower(arg) = <<"t", "o", "d", "a", "y">>
             dn == IF isToday THEN day_number_for_date(today)
                   ELSE IF IsIntText(arg) THEN Some(intText(arg)) ELSE None
         IN  IF dn = None \/ ~valid_day(dn[1])
             THEN /\ last' = Rejected("publish", arg, today, 0, "day")
                  /\ UNCHANGED run
             ELSE \E dir \in ManuscriptDirs : PublishDay(p, arg, today, dn[1], dir)

\* CHAPTERS_DIR.mkdir(exist_ok=True); out_path.write_text(html)
PublishWritePage(p) ==
    LET r == run[p] IN
    /\ r.pc = "page" /\ r.cmd = "publish"
    /\ UNCHANGED <<indexFile, listing, feed, runs, call, io>>
    /\ \/ /\ pages' = (r.filename :> File(r.html)) @@ pages
          /\ run' = [run EXCEPT ![p].pc = "load", ![p].steps = Append(@, "page")]
          /\ UNCHANGED <<last, faults>>
       \/ /\ WriteFails
          /\ pages' \in {pages, (r.filename :> TornPage) @@ pages}
          /\ Fail(p, "page")

\* index = load_index(); index["chapters"][str(day_num)] = {...}
PublishLoadIndex(p) ==
    LET r == run[p] IN
    /\ r.pc = "load" /\ r.cmd = "publish"
    /\ UNCHANGED <<pages, indexFile, listing, feed, runs, faults, call>>
    /\ IF indexFile.exists /\ ~indexFile.whole
       THEN Fail(p, "load") /\ UNCHANGED io
       ELSE /\ io' = Append(io, [p |-> p, op |-> "load", day_num |-> r.day_num,
                                 index |-> indexFile.data])
            /\ run' = [run EXCEPT ![p].pc = "save",
                           ![p].index = DictSet(indexFile.data, str(r.day_num),
                                            publish_record(r.chapter.title, r.chapter.excerpt,
                                                r.chapter.chapter_date, r.filename))]
            /\ UNCHANGED last

\* save_index(index), had it merged its record into the file as it is now
PublishSaveIndexMerging(p) ==
    LET r == run[p]
        key == str(r.day_num)
        merged == DictSet(indexFile.data, key, r.index[KeyPos(r.index, key, 1)].info)
    IN
    /\ r.pc = "save" /\ r.cmd = "publish"
    /\ UNCHANGED <<pages, listing, feed, runs, call, last, faults>>
    /\ indexFile' = File(merged)
    /\ io' = Append(io, [p |-> p, op |-> "save", day_num |-> r.day_num, index |-> merged])
    /\ run' = [run EXCEPT ![p].pc = "listing", ![p].steps = Append(@, "index")]

\* save_index(index)
PublishSaveIndex(p) ==
    LET r == run[p] IN
    /\ r.pc = "save" /\ r.cmd = "publish"
    /\ UNCHANGED <<pages, listing, feed, runs, call>>
    /\ \/ /\ indexFile' = File(r.index)
          /\ io' = Append(io, [p |-> p, op |-> "save", day_num |-> r.day_num,
                               index |-> r.index])
          /\ run' = [run EXCEPT ![p].pc = "listing", ![p].steps = Append(@, "index")]
          /\ UNCHANGED <<last, faults>>
       \/ /\ WriteFails
          /\ indexFile' \in FailedWrites(indexFile, r.index)
          /\ Fail(p, "index")
          /\ UNCHANGED io

\* rebuild_chapters_page(index)
PublishRebuildChaptersPage(p) ==
    LET r == run[p] IN
    /\ r.pc = "listing" /\ r.cmd = "publish"
    /\ UNCHANGED <<pages, indexFile, feed, runs, call, io>>
    /\ \/ /\ listing' = File(rebuild_chapters_page(r.index))
          /\ run' = [run EXCEPT ![p].pc = "rss", ![p].steps = Append(@, "listing")]
          /\ UNCHANGED <<last, faults>>
       \/ /\ WriteFails
          /\ listing' \in {listing, TornListing}
          /\ Fail(p, "listing")

\* rebuild_rss(index); return chapter
PublishRebuildRss(p) ==
    LET r == run[p] IN
    /\ r.pc = "rss" /\ r.cmd = "publish"
    /\ UNCHANGED <<pages, indexFile, listing, runs, call, io>>
    /\ \/ /\ feed' = File(rebuild_rss(r.index))
          /\ run' = [run EXCEPT ![p] = Idle]
          /\ last' = Ended(r, 0, "", Append(r.steps, "feed"))
          /\ UNCHANGED faults
       \/ /\ WriteFails
          /\ feed' \in {feed, Torn(<<>>)}
          /\ run' = [run EXCEPT ![p] = Idle]
          /\ last' = Ended(r, 1, "feed", Append(r.steps, "feed"))

(***************************************************************************)
(* generate_chapter.py                                                      *)
(***************************************************************************)
RebuildFlag == <<"--rebuild-index">>
GenTitle == <<"g">>
GenContent == <<"<", "p", ">">>
GenArgvs ==
    {<<>>, <<RebuildFlag>>}
        \cup {<<a>> : a \in {str(9)}}
        \cup {<<a, GenTitle, GenContent>> :
                 a \in {str(n) : n \in Days \cup {0}} \cup {TodayWord, <<"a", "b", "c">>}}

\* the record of a generate_chapter.py invocation that ended
GenEnded(r, status, failedAt) ==
    [cmd |-> "generate_chapter", status |-> status, failedAt |-> failedAt,
     prior |-> IF failedAt = "index" THEN indexFile ELSE NoFile,
     updated |-> IF failedAt = "index" THEN r.index ELSE <<>>,
     clean |-> last.clean /\ (status = 0 \/ failedAt = "input")]

GenFail(p, step) ==
    /\ run' = [run EXCEPT ![p] = Idle]
    /\ last' = GenEnded(run[p], 1, step)

\* main() up to the call of generate_chapter or rebuild_chapters_html
GenMain(p) ==
    /\ run[p].pc = "idle"
    /\ runs < MaxRuns
    /\ runs' = runs + 1
    /\ UNCHANGED <<pages, indexFile, listing, feed, faults, call>>
    /\ io' = IF \A q \in Procs : run[q].pc = "idle" THEN <<>> ELSE io
    /\ \E argv \in GenArgvs :
       \E today \in (IF Len(argv) = 3 /\ lower(argv[1]) = <<"t", "o", "d", "a", "y">>
                     THEN Todays ELSE {<<>>}) :
         LET day_arg == argv[1]
             isToday == lower(day_arg) = <<"t", "o", "d", "a", "y">>
             dn == IF isToday THEN get_day_number_for_date(today)
                   ELSE IF IsIntText(day_arg) /\ 1 <= intText(day_arg)
                           /\ intText(day_arg) <= 365
                   THEN Some(intText(day_arg)) ELSE None
         IN  IF Len(argv) < 1
             THEN GenFail(p, "input")
             ELSE IF argv[1] = RebuildFlag
             THEN /\ run' = [run EXCEPT ![p] =
                                [pc |-> "gen_rebuild", cmd |-> "generate_chapter"]]
                  /\ UNCHANGED last
             ELSE IF Len(argv) < 3 \/ dn = None
             THEN GenFail(p, "input")
             ELSE /\ run' = [run EXCEPT ![p] =
                                [pc |-> "gen_page", cmd |-> "generate_chapter",
                                 day_num |-> dn[1], title |-> argv[2], content |-> argv[3],
                                 filename |-> pad3(dn[1]) \o <<".html">>, index |-> <<>>]]
                  /\ UNCHANGED last

\* generate_chapter(): CHAPTERS_DIR.mkdir; the chapter page is written
GenWritePage(p) ==
    LET r == run[p] IN
    /\ r.pc = "gen_page"
    /\ UNCHANGED <<indexFile, listing, feed, runs, call, io>>
    /\ \/ /\ pages' = (r.filename :>
                          File(generate_chapter_html(r.day_num, r.title, r.content))) @@ pages
          /\ run' = [run EXCEPT ![p].pc = "gen_load"]
          /\ UNCHANGED <<last, faults>>
       \/ /\ WriteFails
          /\ pages' \in {pages, (r.filename :> TornPage) @@ pages}
          /\ GenFail(p, "page")

\* index = load_chapters_index(); index["chapters"][str(day_num)] = {...}
GenLoadIndex(p) ==
    LET r == run[p] IN
    /\ r.pc = "gen_load"
    /\ UNCHANGED <<pages, indexFile, listing, feed, runs, faults, call, io>>
    /\ IF indexFile.exists /\ ~indexFile.whole
       THEN GenFail(p, "load")
       ELSE /\ run' = [run EXCEPT ![p].pc = "gen_save",
                           ![p].index = DictSet(indexFile.data, str(r.day_num),
                                            generate_record(r.title,
                                                FormatDate(get_date_for_day(r.day_num)),
                                                r.filename))]
            /\ UNCHANGED last

\* save_chapters_index(index)
GenSaveIndex(p) ==
    LET r == run[p] IN
    /\ r.pc = "gen_save"
    /\ UNCHANGED <<pages, listing, feed, runs, call, io>>
    /\ \/ /\ indexFile' = File(r.index)
          /\ run' = [run EXCEPT ![p].pc = "gen_rebuild"]
          /\ UNCHANGED <<last, faults>>
       \/ /\ WriteFails
          /\ indexFile' \in FailedWrites(indexFile, r.index)
          /\ GenFail(p, "index")

\* rebuild_chapters_html(): the index is loaded again and the listing written
GenRebuild(p) ==
    LET r == run[p] IN
    /\ r.pc = "gen_rebuild"
    /\ UNCHANGED <<pages, indexFile, feed, runs, call, io>>
    /\ \/ /\ indexFile.exists /\ ~indexFile.whole
          /\ GenFail(p, "load")
          /\ UNCHANGED <<listing, faults>>
       \/ /\ ~(indexFile.exists /\ ~indexFile.whole)
          /\ listing' = File(rebuild_chapters_html(indexFile.data))
          /\ run' = [run EXCEPT ![p] = Idle]
          /\ last' = GenEnded(r, 0, "")
          /\ UNCHANGED faults
       \/ /\ ~(indexFile.exists /\ ~indexFile.whole)
          /\ WriteFails
          /\ listing' \in {listing, TornListing}
          /\ GenFail(p, "listing")

(***************************************************************************)
(* One invocation at a time                                                 *)
(***************************************************************************)
Publish(p) ==
    \/ PublishMain(p)
    \/ PublishWritePage(p)
    \/ PublishLoadIndex(p)
    \/ PublishSaveIndex(p)
    \/ PublishRebuildChaptersPage(p)
    \/ PublishRebuildRss(p)

Generate(p) ==
    \/ GenMain(p)
    \/ GenWritePage(p)
    \/ GenLoadIndex(p)
    \/ GenSaveIndex(p)
    \/ GenRebuild(p)

Next == Publish(1) \/ Generate(1)

Spec == Init /\ [][Next]_vars

(***************************************************************************)
(* Two invocations of scripts/publish.py at once: nothing in the code      *)
(* locks chapters.json, so their steps interleave freely                    *)
(***************************************************************************)
Concurrent == Publish(1) \/ Publish(2)

\* the repository after the first day of the pool was published, with no
\* write left to fail: the runs differ by their interleaving alone
ConcurrentStart == <<DayPool[1]>>
ConcurrentInit ==
    /\ pages = StartPages(ConcurrentStart)
    /\ indexFile = File(StartIndex(ConcurrentStart, 1))
    /\ listing = File(rebuild_chapters_page(StartIndex(ConcurrentStart, 1)))
    /\ feed = File(rebuild_rss(StartIndex(ConcurrentStart, 1)))
    /\ run = [p \in Procs |-> Idle]
    /\ last = [cmd |-> "none", status |-> 0, clean |-> TRUE]
    /\ runs = 0
    /\ faults = MaxFaults
    /\ call = NoCall
    /\ io = <<>>

SpecConcurrent == ConcurrentInit /\ [][Concurrent]_vars

(***************************************************************************)
(* Properties of the pipeline                                               *)
(***************************************************************************)
AllIdle == \A p \in Procs : run[p].pc = "idle"
Order == <<"page", "index", "listing", "feed">>

CountKey(chapters, key) == Cardinality({i \in 1..Len(chapters) : chapters[i].key = key})
ListingEntries(data, n) ==
    Cardinality({<<i, j>> \in (1..Len(data.sections)) \X (1..(Len(indexFile.data) + 1)) :
                    /\ j <= Len(data.sections[i].lis)
                    /\ data.sections[i].lis[j].day_num = n})
FeedEntries(items, n) == Cardinality({i \in 1..Len(items) : items[i].day_num = n})

RepeatedPublish ==
    /\ AllIdle
    /\ last.cmd = "publish" /\ last.status = 0 /\ ~last.dry_run
    /\ last.prev.ok /\ ~last.prev.dry_run

DryRunEnded ==
    AllIdle /\ last.cmd = "publish" /\ last.status = 0 /\ last.dry_run

\* C2: a dry run writes nothing: the index, the listing page and the feed are
\* as they were before it, and it returns the Chapter that a publish of the
\* same day from the same manuscript without dry_run returns.
C2_DryRunChangesNothing ==
    /\ DryRunEnded =>
          /\ indexFile = last.pre[2] /\ listing = last.pre[3] /\ feed = last.pre[4]
          /\ last.steps = <<>>
    /\ (AllIdle /\ last.cmd = "publish" /\ last.status = 0 /\ last.prev.ok
            /\ last.dry_run # last.prev.dry_run)
          => last.ret = last.prev.ret

C2_Witness ==
    DryRunEnded /\ last.prev.ok /\ ~last.prev.dry_run /\ Len(indexFile.data) >= 2

IndexWriteFailed ==
    AllIdle /\ last.cmd \in {"publish", "generate_chapter"}
        /\ last.status = 1 /\ last.failedAt = "index"

\* C3: after a failed or interrupted write of the index, chapters.json holds
\* the complete prior index or the complete updated index.
C3_AtomicIndexWrite ==
    IndexWriteFailed => (indexFile = last.prior \/ indexFile = File(last.updated))

StepsBefore(pc) ==
    IF pc = "page" THEN <<>>
    ELSE IF pc \in {"load", "save"} THEN <<"page">>
    ELSE IF pc = "listing" THEN <<"page", "index">>
    ELSE <<"page", "index", "listing">>

StepsThrough(step) ==
    IF step \in {"page", "load"} THEN <<"page">>
    ELSE IF step = "index" THEN <<"page", "index">>
    ELSE IF step = "listing" THEN <<"page", "index", "listing">>
    ELSE Order

PublishAborted ==
    AllIdle /\ last.cmd = "publish" /\ last.status = 1
        /\ last.failedAt \in {"page", "load", "index", "listing", "feed"}

\* C4: the steps of a publish run are page, index, listing, feed in this order,
\* each at most once; a step that fails ends the run, and every artifact after
\* the failing step is as it was before the run; a run that ends well has
\* written all of them.
C4_AbortOnFailure ==
    /\ \A p \in Procs : (run[p].pc # "idle" /\ run[p].cmd = "publish") =>
          /\ run[p].failedAt = ""
          /\ run[p].steps = StepsBefore(run[p].pc)
          /\ run[p].pc \in {"page", "load", "save"} => indexFile = run[p].pre[2]
          /\ run[p].pc # "rss" => listing = run[p].pre[3]
          /\ feed = run[p].pre[4]
    /\ PublishAborted =>
          /\ last.steps = StepsThrough(last.failedAt)
          /\ last.failedAt \in {"page", "load"} => indexFile = last.pre[2]
          /\ last.failedAt \in {"page", "load", "index"} => listing = last.pre[3]
          /\ last.failedAt # "feed" => feed = last.pre[4]
    /\ (AllIdle /\ last.cmd = "publish" /\ last.status = 0 /\ ~last.dry_run) =>
          /\ last.steps = Order
          /\ indexFile.whole /\ listing.whole /\ feed.whole

C4_Witness ==
    PublishAborted /\ last.failedAt = "index" /\ listing.exists /\ feed.exists
        /\ indexFile # last.pre[2]

AllCompleted ==
    /\ AllIdle
    /\ last.cmd \in {"publish", "generate_chapter"} /\ last.status = 0 /\ last.clean
    /\ indexFile.exists /\ listing.exists /\ feed.exists

\* C5: after any sequence of completed invocations of the two scripts, the
\* listing page on disk is the listing regenerated from the index on disk and
\* the feed on disk is the feed regenerated from the index on disk.
C5_ArtifactsAreProjections ==
    AllCompleted =>
        /\ listing \in {File(rebuild_chapters_page(indexFile.data)),
                        File(rebuild_chapters_html(indexFile.data))}
        /\ feed = File(rebuild_rss(indexFile.data))

InputRejected ==
    AllIdle /\ last.cmd = "publish" /\ last.status # 0
        /\ last.failedAt \in {"day", "manuscript"}

\* C6: an invocation given a day outside 1..365, a non-integer, "today" outside
\* 2026, or a day without any candidate manuscript ends with a non-zero status
\* and leaves the chapter pages, the index, the listing page and the feed as
\* they were; only an acceptable input gets to the writes or ends well.
C6_RejectedInputChangesNothing ==
    /\ \A p \in Procs : (run[p].pc # "idle" /\ run[p].cmd = "publish") => run[p].acceptable
    /\ (last.cmd = "publish" /\ last.status = 0) => last.acceptable
    /\ (last.cmd = "publish" /\ last.status # 0 /\ last.failedAt \in {"day", "manuscript"}) =>
          ~Acceptable(last.arg, last.today, last.nfiles)
    /\ InputRejected => Snapshot = last.pre

C6_Witness ==
    InputRejected /\ last.failedAt = "manuscript" /\ indexFile.exists /\ runs = MaxRuns

\* C11: the save of a publish(n) writes an index that holds the record of day
\* n once, and every other record of the index persisted before it, unchanged
\* in every field, and no further record.
C11_OneRecordTouched ==
    [][\A p \in Procs :
          (run[p].pc = "save" /\ run[p].cmd = "publish" /\ run'[p].pc = "listing") =>
              LET old == indexFile.data
                  new == indexFile'.data
                  key == str(run[p].day_num)
                  ch == run[p].chapter
              IN  /\ indexFile'.exists /\ indexFile'.whole
                  /\ CountKey(new, key) = 1
                  /\ new[KeyPos(new, key, 1)].info =
                         publish_record(ch.title, ch.excerpt, ch.chapter_date,
                                        chapter_paths(run[p].day_num))
                  /\ \A i \in 1..Len(old) :
                        old[i].key # key =>
                            /\ CountKey(new, old[i].key) = 1
                            /\ new[KeyPos(new, old[i].key, 1)] = old[i]
                  /\ \A j \in 1..Len(new) :
                        new[j].key # key => CountKey(old, new[j].key) = 1]_vars

\* a publish completed on an index that held the record of another day
C11_Witness ==
    /\ AllIdle
    /\ last.cmd = "publish" /\ last.status = 0 /\ ~last.dry_run
    /\ indexFile.exists /\ indexFile.whole
    /\ Len(indexFile.data) = 2
    /\ indexFile.data[1].key # str(last.day_num)
    /\ indexFile.data[2].key = str(last.day_num)

\* C13: in every state, whatever runs completed, failed or were dry, every key
\* of chapters.json is the decimal text of a day of 1..365, the file of its
\* record is that day on three digits with ".html", and chapters/ holds a
\* page of that name.
C13_IndexPointsAtPages ==
    indexFile.exists =>
        \A i \in 1..Len(indexFile.data) :
            LET item == indexFile.data[i]
                n == int(item.key)
            IN  /\ item.key # <<>>
                /\ \A k \in 1..Len(item.key) :
                      \E d \in 1..Len(Digits) : Digits[d] = item.key[k]
                /\ n \in 1..365
                /\ item.key = str(n)
                /\ item.info.file = zfill(str(n), 3) \o <<".html">>
                /\ item.info.file \in DOMAIN pages
                /\ pages[item.info.file].exists

\* a run published a day into an index that held another one, then a run
\* failed part-way
C13_Witness ==
    /\ AllIdle
    /\ runs = 2
    /\ last.cmd = "publish" /\ last.status = 1 /\ last.failedAt = "listing"
    /\ indexFile.exists /\ indexFile.whole
    /\ Len(indexFile.data) = 2
    /\ \A i \in 1..2 : pages[indexFile.data[i].info.file].exists

(***************************************************************************)
(* Properties of overlapping invocations                                    *)
(***************************************************************************)
Saves == {i \in 1..Len(io) : io[i].op = "save"}
LastSave == CHOOSE i \in Saves : \A j \in Saves : j <= i
FirstSave == CHOOSE i \in Saves : \A j \in Saves : i <= j
\* the load of the invocation that saved at position i
LoadOf(i) ==
    CHOOSE l \in 1..i :
        /\ io[l].op = "load" /\ io[l].p = io[i].p
        /\ \A k \in (l + 1)..(i - 1) : ~(io[k].op = "load" /\ io[k].p = io[i].p)
RecordAt(i) == io[i].index[KeyPos(io[i].index, str(io[i].day_num), 1)]
Holds(chapters, item) == \E k \in 1..Len(chapters) : chapters[k] = item

\* two overlapping invocations for different days have both saved
TwoSaved ==
    /\ Cardinality(Saves) = 2
    /\ io[FirstSave].p # io[LastSave].p
    /\ io[FirstSave].day_num # io[LastSave].day_num

EmptyRepository ==
    /\ pages = <<>>
    /\ indexFile = NoFile
    /\ listing = NoListing
    /\ feed = NoFile
    /\ run = [p \in Procs |-> Idle]
    /\ last = [cmd |-> "none", status |-> 0, clean |-> TRUE]
    /\ runs = 0
    /\ faults = 0
    /\ io = <<>>

\* ---- the calendar --------------------------------------------------------
CalMargin == 3
Scripts == {"scripts/publish.py", "generate_chapter.py"}

CalInit ==
    /\ EmptyRepository
    /\ call \in {[fn |-> "calendar", script |-> sc, n |-> n, stage |-> 0,
                  date |-> <<>>, back |-> None] :
                    sc \in Scripts, n \in (1 - CalMargin)..(365 + CalMargin)}

\* date_for_day_number(n) / get_date_for_day(n)
CallDateForDayNumber ==
    /\ call.fn = "calendar" /\ call.stage = 0
    /\ call' = [call EXCEPT !.stage = 1,
                            !.date = IF call.script = "scripts/publish.py"
                                     THEN date_for_day_number(call.n)
                                     ELSE get_date_for_day(call.n)]
    /\ UNCHANGED <<pages, indexFile, listing, feed, run, last, runs, faults, io>>

\* day_number_for_date(d) / get_day_number_for_date(d) of that date
CallDayNumberForDate ==
    /\ call.fn = "calendar" /\ call.stage = 1
    /\ call' = [call EXCEPT !.stage = 2,
                            !.back = IF call.script = "scripts/publish.py"
                                     THEN day_number_for_date(call.date)
                                     ELSE get_day_number_for_date(call.date)]
    /\ UNCHANGED <<pages, indexFile, listing, feed, run, last, runs, faults, io>>

CalNext == CallDateForDayNumber \/ CallDayNumberForDate
SpecCal == CalInit /\ [][CalNext]_vars

\* C7: for every n in 1..365 the date of day n is a date of 2026 whose day
\* number is n again; day 1 is 2026-01-01 and day 365 is 364 days later,
\* 2026-12-31.
C7_CalendarRoundTrip ==
    (call.fn = "calendar" /\ call.n \in 1..365) =>
        /\ call.stage >= 1 =>
              /\ call.date[1] = 2026
              /\ call.n = 1 => call.date = <<2026, 1, 1>>
              /\ call.n = 365 => call.date = <<2026, 12, 31>>
              /\ toordinal(call.date) = toordinal(<<2026, 1, 1>>) + call.n - 1
        /\ call.stage = 2 => call.back = <<call.n>>

C7_Witness ==
    call.fn = "calendar" /\ call.stage = 2 /\ call.n = 365 /\ call.back = <<365>>
        /\ call.script = "scripts/publish.py"

\* ---- derive_title --------------------------------------------------------
MaxBodyLen == 3
MaxTitleLen == 2
Texts(alphabet, n) == UNION {[1..k -> alphabet] : k \in 0..n}

TitleFrontmatters ==
    {<<>>, [title |-> [t |-> "int", v |-> <<"7">>]]}
        \cup {[title |-> Str(x)] : x \in Texts({" ", "a"}, MaxTitleLen)}

TitleInit ==
    /\ EmptyRepository
    /\ call \in {[fn |-> "derive_title", fm |-> fm, body_md |-> b, day_num |-> n,
                  done |-> FALSE, ret |-> <<>>] :
                    fm \in TitleFrontmatters,
                    b \in Texts({"#", " ", "a", "\n"}, MaxBodyLen),
                    n \in {1, 42}}

CallDeriveTitle ==
    /\ call.fn = "derive_title" /\ ~call.done
    /\ call' = [call EXCEPT !.done = TRUE,
                            !.ret = derive_title(call.fm, call.body_md, call.day_num)]
    /\ UNCHANGED <<pages, indexFile, listing, feed, run, last, runs, faults, io>>

TitleNext == CallDeriveTitle
SpecTitle == TitleInit /\ [][TitleNext]_vars

\* the precedence alone: frontmatter title, else first heading line, else
\* "Chapter N"
TitlePrecedence ==
    (call.fn = "derive_title" /\ call.done) =>
        LET t == FmGet(call.fm, "title")
            lines == splitlines(call.body_md)
            headings == {i \in 1..Len(lines) : Len(lines[i]) > 0 /\ lines[i][1] = "#"}
            first == CHOOSE i \in headings : \A j \in headings : i <= j
        IN  IF t.t = "str" /\ strip(t.v) # <<>> THEN call.ret = strip(t.v)
            ELSE IF headings # {} THEN call.ret = strip(lstripSet(lines[first], {"#"}))
            ELSE call.ret = ChapterWord \o str(call.day_num)

\* C10: derive_title returns the stripped frontmatter title when that is text
\* and not empty; otherwise the text of the first heading line of the body;
\* otherwise "Chapter N"; and what it returns is never empty.
C10_TitleDerivation ==
    /\ TitlePrecedence
    /\ (call.fn = "derive_title" /\ call.done) => call.ret # <<>>

\* ---- the listing page ----------------------------------------------------
MaxListed == 3
ListedDays == {9, 10, 31, 32, 100}
ListedSeqs ==
    {q \in UNION {[1..k -> ListedDays] : k \in 0..MaxListed} :
        \A i, j \in 1..Len(q) : i # j => q[i] # q[j]}

ListingInit ==
    /\ EmptyRepository
    /\ call \in {[fn |-> "rebuild_listing", script |-> sc,
                  chapters |-> StartIndex(q, Len(q)), done |-> FALSE] :
                    sc \in Scripts, q \in ListedSeqs}

\* rebuild_chapters_page(index) / rebuild_chapters_html() on that index
CallRebuildListing ==
    /\ call.fn = "rebuild_listing" /\ ~call.done
    /\ call' = [call EXCEPT !.done = TRUE]
    /\ listing' = IF call.script = "scripts/publish.py"
                  THEN File(rebuild_chapters_page(call.chapters))
                  ELSE File(rebuild_chapters_html(call.chapters))
    /\ UNCHANGED <<pages, indexFile, feed, run, last, runs, faults, io>>

ListingNext == CallRebuildListing
SpecListing == ListingInit /\ [][ListingNext]_vars

\* C8: whatever the order of the records in the index, every indexed day is on
\* the listing exactly once, in the section of the month of its date; the
\* sections are in the order of their smallest day, and the days of a section
\* are strictly ascending.
C8_ListingOrder ==
    (call.fn = "rebuild_listing" /\ call.done) =>
        LET secs == listing.data.sections
            days == {int(call.chapters[i].key) : i \in 1..Len(call.chapters)}
            at == {<<i, j>> \in (1..Len(secs)) \X (1..(Len(call.chapters) + 1)) :
                      j <= Len(secs[i].lis)}
            dayAt(x) == secs[x[1]].lis[x[2]].day_num
        IN  /\ \A d \in days : Cardinality({x \in at : dayAt(x) = d}) = 1
            /\ \A x \in at : dayAt(x) \in days
            /\ \A x \in at :
                  secs[x[1]].month =
                      <<MonthNames[fromordinal(toordinal(<<2026, 1, 1>>) + dayAt(x) - 1)[2]],
                        " ", "2", "0", "2", "6">>
            /\ \A i, k \in 1..Len(secs) : i # k => secs[i].month # secs[k].month
            /\ \A x, y \in at :
                  (x[1] < y[1] \/ (x[1] = y[1] /\ x[2] < y[2])) => dayAt(x) < dayAt(y)

C8_Witness ==
    /\ call.fn = "rebuild_listing" /\ call.done
    /\ Len(call.chapters) = 3
    /\ int(call.chapters[1].key) = 32 /\ int(call.chapters[2].key) = 10
    /\ int(call.chapters[3].key) = 9
    /\ Len(listing.data.sections) = 2

\* ---- the feed ------------------------------------------------------------
MaxRecords == 32
MaxShift == 2

\* the days 1..n, rotated by r, backwards when rev
FeedDays(n, r, rev) ==
    [i \in 1..n |-> LET k == IF rev THEN n + 1 - i ELSE i IN ((k + r - 1) % n) + 1]

\* chapters.json with one record for each of these days, in this order
FeedIndex(q) ==
    [i \in 1..Len(q) |->
        LET ch == StartChapter(q[i])
        IN  [key |-> str(q[i]),
             info |-> publish_record(ch.title, ch.excerpt, ch.chapter_date,
                                     chapter_paths(q[i]))]]

FeedInit ==
    /\ EmptyRepository
    /\ call \in {[fn |-> "rebuild_rss",
                  chapters |-> FeedIndex(FeedDays(n, r, rev)), done |-> FALSE] :
                    n \in 0..MaxRecords, r \in 0..MaxShift, rev \in BOOLEAN}

\* rebuild_rss(index)
CallRebuildRss ==
    /\ call.fn = "rebuild_rss" /\ ~call.done
    /\ call' = [call EXCEPT !.done = TRUE]
    /\ feed' = File(rebuild_rss(call.chapters))
    /\ UNCHANGED <<pages, indexFile, listing, run, last, runs, faults, io>>

FeedNext == CallRebuildRss
SpecFeed == FeedInit /\ [][FeedNext]_vars

\* C9: the feed holds min(30, number of records) entries, they are the records
\* with the largest day numbers, and they are in strictly descending order of
\* the day number.
C9_FeedSelection ==
    (call.fn = "rebuild_rss" /\ call.done) =>
        LET items == feed.data
            days == {int(call.chapters[i].key) : i \in 1..Len(call.chapters)}
            shown == {items[i].day_num : i \in 1..Len(items)}
        IN  /\ Len(items) = IF Len(call.chapters) < 30 THEN Len(call.chapters) ELSE 30
            /\ shown \subseteq days
            /\ \A d \in days \ shown : \A e \in shown : d < e
            /\ \A i \in 1..(Len(items) - 1) : items[i].day_num > items[i + 1].day_num

C9_Witness ==
    /\ call.fn = "rebuild_rss" /\ call.done
    /\ Len(call.chapters) > 30 /\ Len(feed.data) = 30
    /\ int(call.chapters[1].key) < int(call.chapters[2].key)

====
